---- MODULE Spec2Model ----
(***************************************************************************)
(* Model of the sol-transfer tool (src/sol-transfer/src/main.rs).          *)
(*                                                                         *)
(* main loads a configuration, calls SolTransfer::execute_transfers and    *)
(* hands the returned Vec<TransferResult> to print_statistics.             *)
(* execute_transfers fetches one recent blockhash, creates one future per  *)
(* (sender, recipient) pair and drives all of them with join_all.  Each    *)
(* future is modelled by its position pc[k] and its local variables; the   *)
(* JSON-RPC endpoint is the environment and answers every call with an     *)
(* arbitrary response.                                                     *)
(***************************************************************************)
EXTENDS Integers, Sequences, FiniteSets, TLC

(***************************************************************************)
(* Bounds of the model.                                                    *)
(***************************************************************************)
MaxSenders == 2
MaxRecipients == 2
MaxPairs == 4

(***************************************************************************)
(* Program constants.                                                      *)
(***************************************************************************)
KeypairBytes == 64
PubkeyBytes == 32
ConfirmationWaitMs == 2000

(* Option<T> *)
None == [some |-> FALSE]
Some(v) == [some |-> TRUE, v |-> v]

(***************************************************************************)
(* Texts of the configuration.  A text is modelled by what the base-58     *)
(* decoder makes of it: a failure, or a number of decoded bytes.           *)
(***************************************************************************)
(* The text of n characters '1'.  In base 58 the character '1' is the      *)
(* digit zero, and every leading '1' decodes to one zero byte, so that     *)
(* Ones(n) decodes to n bytes.  The character '0' is not a base-58 digit.  *)
RECURSIVE Ones(_)
Ones(n) == IF n = 0 THEN "" ELSE "1" \o Ones(n - 1)

Bs58Decode(text) ==
    CASE text = "KEY_64_BYTES"   -> [ok |-> TRUE,  len |-> 64]
      [] text = "KEY_64_BYTES_OFF_CURVE" -> [ok |-> TRUE, len |-> 64]
      [] text = "KEY_32_BYTES"   -> [ok |-> TRUE,  len |-> 32]
      [] text = Ones(Len(text))  -> [ok |-> TRUE,  len |-> Len(text)]
      [] text = "KEY_NOT_BASE58" -> [ok |-> FALSE, len |-> 0]
      [] text = "RECIPIENT_1"    -> [ok |-> TRUE,  len |-> 32]
      [] text = "invalid_pubkey" -> [ok |-> FALSE, len |-> 0]
      [] OTHER                   -> [ok |-> FALSE, len |-> 0]

SenderWallet ==
    { [address |-> "SENDER_1", private_key |-> "KEY_64_BYTES"],
      [address |-> "SENDER_2", private_key |-> "KEY_32_BYTES"] }

RecipientAddress == { "RECIPIENT_1", "invalid_pubkey" }

(* The endpoint answers an accepted submission with the signature of the   *)
(* submitted transaction; the model names the signatures in task order.    *)
SignatureNames == <<"SIG_A", "SIG_B", "SIG_C", "SIG_D", "SIG_E", "SIG_F">>

SignatureOf(k) == IF k \in DOMAIN SignatureNames THEN SignatureNames[k] ELSE "SIG_X"

Ok(v) == [ok |-> TRUE, value |-> v]
Err(e) == [ok |-> FALSE, error |-> e]

SeqsUpTo(S, n) == UNION { [1..m -> S] : m \in 0..n }

(***************************************************************************)
(* JSON-RPC.  A call either fails in transport or decoding, or yields a    *)
(* JsonRpcResponse whose result and error members are each optional.       *)
(***************************************************************************)
TransportFailure == [transport |-> FALSE, result |-> None, error |-> None]

JsonRpcError == [code |-> "code", message |-> "message"]

JsonRpcResponse(payloads) ==
    [transport : {TRUE},
     result : {None} \cup { Some(p) : p \in payloads },
     error : {None, Some(JsonRpcError)}]

RpcReplies(payloads) == {TransportFailure} \cup JsonRpcResponse(payloads)

RpcErrorText(error) == <<"RPC Error", error.code, error.message>>

(* get_recent_blockhash, from the reply on *)
BlockhashResult ==
    { [value |-> [blockhash |-> h, last_valid_block_height |-> 1]] :
        h \in { "HASH_1", "not_a_hash" } }

HashFromStr(s) == IF s = "not_a_hash" THEN Err(<<"ParseHashError">>) ELSE Ok(s)

get_recent_blockhash(reply) ==
    IF ~reply.transport THEN Err(<<"reqwest::Error">>)
    ELSE IF reply.error.some THEN Err(RpcErrorText(reply.error.v))
    ELSE IF reply.result.some THEN HashFromStr(reply.result.v.value.blockhash)
    ELSE Err(<<"No result in response">>)

(* Variant: a result in the response is returned before the error is looked at. *)
send_transaction_ResultFirst(reply) ==
    IF ~reply.transport THEN Err(<<"reqwest::Error">>)
    ELSE IF reply.result.some THEN Ok(reply.result.v)
    ELSE IF reply.error.some THEN Err(RpcErrorText(reply.error.v))
    ELSE Err(<<"No signature in response">>)

(* send_transaction, from the reply on *)
send_transaction(reply) ==
    IF ~reply.transport THEN Err(<<"reqwest::Error">>)
    ELSE IF reply.error.some THEN Err(RpcErrorText(reply.error.v))
    ELSE IF reply.result.some THEN Ok(reply.result.v)
    ELSE Err(<<"No signature in response">>)

(* get_signature_status, from the reply on *)
SignatureStatus ==
    { [slot |-> 1, confirmations |-> None, err |-> None,
       confirmation_status |-> "confirmed"],
      [slot |-> 1, confirmations |-> None, err |-> Some("InstructionError"),
       confirmation_status |-> "confirmed"] }

SignatureStatusResult ==
    { [value |-> v] : v \in {None} \cup { Some(st) : st \in SignatureStatus } }

get_signature_status(reply) ==
    IF ~reply.transport THEN Err(<<"reqwest::Error">>)
    ELSE IF reply.error.some THEN Err(RpcErrorText(reply.error.v))
    ELSE IF reply.result.some THEN Ok(reply.result.v.value)
    ELSE Err(<<"No result in response">>)

(***************************************************************************)
(* Credential and address parsing, transaction building.                   *)
(***************************************************************************)
(* Keypair::from_bytes, on the bytes that `text` decodes to: the second    *)
(* half of the bytes has to be the encoding of a curve point.              *)
KeypairFromBytes(text) ==
    IF text = "KEY_64_BYTES_OFF_CURVE" THEN Err(<<"signature::Error">>)
    ELSE Ok([secret |-> text])

(* Variant: only the keys that are too short are rejected. *)
parse_keypair_AtLeast64(private_key_base58) ==
    LET private_key_bytes == Bs58Decode(private_key_base58) IN
    IF ~private_key_bytes.ok THEN Err(<<"bs58::decode::Error">>)
    ELSE IF private_key_bytes.len < KeypairBytes
         THEN Err(<<"Invalid private key length: expected 64 bytes, got",
                    ToString(private_key_bytes.len)>>)
    ELSE KeypairFromBytes(private_key_base58)

parse_keypair(private_key_base58) ==
    LET private_key_bytes == Bs58Decode(private_key_base58) IN
    IF ~private_key_bytes.ok THEN Err(<<"bs58::decode::Error">>)
    ELSE IF private_key_bytes.len # KeypairBytes
         THEN Err(<<"Invalid private key length: expected 64 bytes, got",
                    ToString(private_key_bytes.len)>>)
    ELSE KeypairFromBytes(private_key_base58)

PubkeyFromStr(text) ==
    LET bytes == Bs58Decode(text) IN
    IF ~bytes.ok THEN Err(<<"ParsePubkeyError::Invalid">>)
    ELSE IF bytes.len # PubkeyBytes THEN Err(<<"ParsePubkeyError::WrongSize">>)
    ELSE Ok(text)

(* Variant: the transaction is bound to the default hash, not to the one passed in. *)
create_transfer_transaction_DefaultHash(sender_keypair, recipient_pubkey, recent_blockhash) ==
    Ok([payer |-> sender_keypair.secret,
        to |-> recipient_pubkey,
        recent_blockhash |-> "11111111111111111111111111111111",
        signed_by |-> sender_keypair.secret])

create_transfer_transaction(sender_keypair, recipient_pubkey, recent_blockhash) ==
    Ok([payer |-> sender_keypair.secret,
        to |-> recipient_pubkey,
        recent_blockhash |-> recent_blockhash,
        signed_by |-> sender_keypair.secret])

TransferResult(from, to, signature, status, processing_time, error) ==
    [from_address |-> from, to_address |-> to, signature |-> signature,
     status |-> status, processing_time |-> processing_time, error |-> error]

(***************************************************************************)
(* The task list built by the nested loops of execute_transfers.           *)
(***************************************************************************)
RECURSIVE RecipientLoop(_, _)
RecipientLoop(sender, rs) ==
    IF rs = <<>> THEN <<>>
    ELSE <<[sender_clone |-> sender, recipient_clone |-> Head(rs)]>>
         \o RecipientLoop(sender, Tail(rs))

RECURSIVE SenderLoop(_, _)
SenderLoop(ss, rs) ==
    IF ss = <<>> THEN <<>>
    ELSE RecipientLoop(Head(ss), rs) \o SenderLoop(Tail(ss), rs)

(***************************************************************************)
(* print_statistics.  Durations are in milliseconds.  min_time starts at   *)
(* Duration::from_secs(u64::MAX); DurationMax stands for it, a value above *)
(* every processing time of the model.                                     *)
(***************************************************************************)
DurationMax == 2000000000

Min(a, b) == IF a <= b THEN a ELSE b
Max(a, b) == IF a >= b THEN a ELSE b

(* Variant: a status that is present is labelled a success, whatever it carries. *)
StatusStr_IgnoreErr(result) ==
    IF result.status.some THEN "SUCCESS" ELSE "PENDING"

StatusStr(result) ==
    IF result.status.some
    THEN IF result.status.v.err.some THEN "TRANSACTION FAILED" ELSE "SUCCESS"
    ELSE "PENDING"

StatsStart ==
    [successful |-> 0, failed |-> 0, total_time |-> 0, min_time |-> DurationMax,
     max_time |-> 0, printed |-> <<>>]

(* Variant: a status with an on-chain error is counted as a failed transfer. *)
StatsVisit_OnChainErrorFails(acc, result) ==
    IF result.error.some \/ (result.status.some /\ result.status.v.err.some)
    THEN [acc EXCEPT !.failed = @ + 1,
                     !.printed = Append(@, "FAILED TRANSFER")]
    ELSE [acc EXCEPT !.successful = @ + 1,
                     !.total_time = @ + result.processing_time,
                     !.min_time = Min(@, result.processing_time),
                     !.max_time = Max(@, result.processing_time),
                     !.printed = Append(@, StatusStr(result))]

(* Variant: the error branch lacks its `continue`. *)
StatsVisit_NoContinue(acc, result) ==
    LET counted == IF result.error.some
                   THEN [acc EXCEPT !.failed = @ + 1,
                                    !.printed = Append(@, "FAILED TRANSFER")]
                   ELSE acc
    IN  [counted EXCEPT !.successful = @ + 1,
                        !.total_time = @ + result.processing_time,
                        !.min_time = Min(@, result.processing_time),
                        !.max_time = Max(@, result.processing_time),
                        !.printed = Append(@, StatusStr(result))]

(* one iteration of the for loop *)
StatsVisit(acc, result) ==
    IF result.error.some
    THEN [acc EXCEPT !.failed = @ + 1,
                     !.printed = Append(@, "FAILED TRANSFER")]
    ELSE [acc EXCEPT !.successful = @ + 1,
                     !.total_time = @ + result.processing_time,
                     !.min_time = Min(@, result.processing_time),
                     !.max_time = Max(@, result.processing_time),
                     !.printed = Append(@, StatusStr(result))]

RECURSIVE StatsLoop(_, _)
StatsLoop(acc, rs) ==
    IF rs = <<>> THEN acc ELSE StatsLoop(StatsVisit(acc, Head(rs)), Tail(rs))

(* Duration / u32 panics when the divisor is zero *)
DurationDiv(duration, n) ==
    [computed |-> TRUE, panic |-> n = 0,
     value |-> IF n = 0 THEN 0 ELSE duration \div n]

NotComputed == [computed |-> FALSE, panic |-> FALSE, value |-> 0]

(* Variant: the average is computed without the `successful > 0` test. *)
print_statistics_NoGuard(rs) ==
    LET acc == StatsLoop(StatsStart, rs) IN
    [successful |-> acc.successful,
     failed |-> acc.failed,
     total |-> acc.successful + acc.failed,
     printed |-> acc.printed,
     total_time |-> acc.total_time,
     min_time |-> acc.min_time,
     max_time |-> acc.max_time,
     avg_time |-> DurationDiv(acc.total_time, acc.successful),
     min_printed |-> acc.min_time # DurationMax]

print_statistics(rs) ==
    LET acc == StatsLoop(StatsStart, rs) IN
    [successful |-> acc.successful,
     failed |-> acc.failed,
     total |-> acc.successful + acc.failed,
     printed |-> acc.printed,
     total_time |-> acc.total_time,
     min_time |-> acc.min_time,
     max_time |-> acc.max_time,
     avg_time |-> IF acc.successful > 0
                  THEN DurationDiv(acc.total_time, acc.successful)
                  ELSE NotComputed,
     min_printed |-> acc.successful > 0 /\ acc.min_time # DurationMax]

(***************************************************************************)
(* Unit conversion.  An f64 is modelled as m * 2^e with a short odd        *)
(* significand m (negated when neg), a u64 as m * 2^e with e >= 0 or as    *)
(* u64::MAX.  10^9 is 5^9 * 2^9, so that the product of such an f64 with   *)
(* 10^9 has a significand of fewer than 53 bits: the f64 multiplication is *)
(* exact on these values, and so is the division of a multiple of 10^9.    *)
(***************************************************************************)
LamportsPerSol == 1000000000
FiveToNine == 1953125
U64Bits == 64

RECURSIVE Pow2(_)
Pow2(n) == IF n = 0 THEN 1 ELSE 2 * Pow2(n - 1)

RECURSIVE BitLen(_)
BitLen(m) == IF m = 0 THEN 0 ELSE 1 + BitLen(m \div 2)

(* m * 2^e with m odd, or zero. *)
RECURSIVE Norm(_, _)
Norm(m, e) ==
    IF m = 0 THEN [m |-> 0, e |-> 0]
    ELSE IF m % 2 = 0 THEN Norm(m \div 2, e + 1)
    ELSE [m |-> m, e |-> e]

F64(m, e) == [neg |-> FALSE, m |-> Norm(m, e).m, e |-> Norm(m, e).e]
Negative(x) == [x EXCEPT !.neg = TRUE]
(* The f64 nearest to m * 2^e / 10^9, when the quotient is not a short f64. *)
NearestF64(m, e) == [nearest_to |-> <<m, e>>, over |-> LamportsPerSol]

U64(n) == Norm(n, 0)
U64Max == [max |-> TRUE]

(* Variant: the product is rounded to the nearest integer. *)
sol_to_lamports_Round(sol) ==
    LET M == sol.m * FiveToNine
        k == sol.e + 9
    IN  IF sol.neg \/ sol.m = 0 THEN U64(0)
        ELSE IF k >= 0
        THEN IF BitLen(M) + k > U64Bits THEN U64Max ELSE Norm(M, k)
        ELSE IF BitLen(M) + 1 <= -k THEN U64(0)
        ELSE U64((M + Pow2(-k - 1)) \div Pow2(-k))

(* (sol * 1_000_000_000.0) as u64: the product is M * 2^k; the cast        *)
(* truncates, a negative value saturates to 0 and a value of 2^64 or more  *)
(* to u64::MAX.                                                            *)
sol_to_lamports(sol) ==
    LET M == sol.m * FiveToNine
        k == sol.e + 9
    IN  IF sol.neg \/ sol.m = 0 THEN U64(0)
        ELSE IF k >= 0
        THEN IF BitLen(M) + k > U64Bits THEN U64Max ELSE Norm(M, k)
        ELSE IF BitLen(M) <= -k THEN U64(0)
        ELSE U64(M \div Pow2(-k))

(* lamports as f64 / 1_000_000_000.0: u64::MAX as f64 is 2^64. *)
lamports_to_sol(lamports) ==
    LET f == IF lamports = U64Max THEN [m |-> 1, e |-> U64Bits] ELSE lamports
    IN  IF f.m % FiveToNine = 0
        THEN F64(f.m \div FiveToNine, f.e - 9)
        ELSE NearestF64(f.m, f.e)

VARIABLES
    sender_wallets,   \* config.sender_wallets
    recipients,       \* config.recipient_addresses
    main_pc,          \* position of main / execute_transfers
    fetched,          \* what get_recent_blockhash returned, None before it returns
    blockhash,        \* the blockhash of execute_transfers, None unless fetched
    blockhash_calls,  \* number of getLatestBlockhash requests sent
    tasks,            \* the futures pushed to `tasks`, in push order
    pc,               \* pc[k]: state of task k
    awaiting,         \* awaiting[k]: the RPC reply task k is suspended on
    timer,            \* timer[k]: the tokio sleep of task k
    local,            \* local[k]: sender_keypair, recipient_pubkey, transaction,
                      \*           signature, status of task k, and sent: what
                      \*           send_transaction returned to it
    slept_ms,         \* slept_ms[k]: the part of start_time.elapsed() of task k
                      \*   that is fixed by the code, the sleep; the latency of
                      \*   the RPC calls is left out
    send_calls,       \* send_calls[k]: sendTransaction requests sent by task k
    status_calls,     \* status_calls[k]: getSignatureStatus requests sent by task k
    warned,           \* warned[k]: the status warning was printed for task k
    output,           \* output[k]: the TransferResult task k resolved to
    results,          \* the Vec<TransferResult> returned to main
    stats,            \* what print_statistics computed and printed, None before
    amount_sol,       \* config.amount_sol, an f64
    amount_lamports,  \* sol_to_lamports(amount_sol), None before the conversion
    sol_balance,      \* lamports_to_sol of that amount, None before the conversion
    private_key,      \* the text given to parse_keypair
    keypair,          \* what parse_keypair returned for it, None before the call
    rpc_method,       \* the method of one JSON-RPC call
    rpc_reply,        \* what the endpoint answers to it
    rpc_outcome,      \* what the calling function returns, None before it returns
    bot_pc,           \* geyser-watcher: position of main / SolTransferBot::run
    received,         \* geyser-watcher: the items taken from the stream of this run
    subscribe_tx,     \* geyser-watcher: the requests sent on subscribe_tx in this run
    bot_slept_s,      \* geyser-watcher: seconds slept since the last connection attempt
    wallet_addresses, \* balance-fetcher: the argument of get_balances
    balance_pc,       \* balance-fetcher: balance_pc[i], state of the i-th future
    balance_calls,    \* balance-fetcher: getBalance requests sent by the i-th future
    balance_out,      \* balance-fetcher: the pair the i-th future resolved to
    balances          \* balance-fetcher: the HashMap get_balances returned, None before

vars == <<sender_wallets, recipients, main_pc, fetched, blockhash, blockhash_calls, tasks,
          pc, awaiting, timer, local, slept_ms, send_calls, status_calls, warned,
          output, results, stats, amount_sol, amount_lamports, sol_balance,
          private_key, keypair, rpc_method, rpc_reply, rpc_outcome,
          bot_pc, received, subscribe_tx, bot_slept_s,
          wallet_addresses, balance_pc, balance_calls, balance_out, balances>>

config == <<sender_wallets, recipients>>
rpc == <<rpc_method, rpc_reply, rpc_outcome>>
watcher == <<bot_pc, received, subscribe_tx, bot_slept_s>>
oracle == <<wallet_addresses, balance_pc, balance_calls, balance_out, balances>>
units == <<amount_sol, amount_lamports, sol_balance>>
codec == <<private_key, keypair>>
taskvars == <<pc, awaiting, timer, local, slept_ms, send_calls, status_calls,
              warned, output>>

Tasks == DOMAIN tasks

NoLocal == [sender_keypair |-> None, recipient_pubkey |-> None,
            transaction |-> None, sent |-> None, signature |-> None,
            status |-> None]

(* The state before execute_transfers is called, but for the configuration. *)
NothingLaunched ==
    /\ fetched = None
    /\ blockhash = None
    /\ blockhash_calls = 0
    /\ tasks = <<>>
    /\ pc = <<>>
    /\ awaiting = <<>>
    /\ timer = <<>>
    /\ local = <<>>
    /\ slept_ms = <<>>
    /\ send_calls = <<>>
    /\ status_calls = <<>>
    /\ warned = <<>>
    /\ output = <<>>

(* The unit conversion and parse_keypair have not been applied. *)
NothingConverted ==
    /\ amount_sol = F64(0, 0)
    /\ amount_lamports = None
    /\ sol_balance = None

NothingParsed ==
    /\ private_key = "KEY_64_BYTES"
    /\ keypair = None

(* No JSON-RPC call is followed on its own. *)
NothingCalled ==
    /\ rpc_method = "none"
    /\ rpc_reply = TransportFailure
    /\ rpc_outcome = None

(* geyser-watcher and balance-fetcher are other binaries, not started. *)
NothingWatched ==
    /\ bot_pc = "not_started"
    /\ received = <<>>
    /\ subscribe_tx = <<>>
    /\ bot_slept_s = 0

NothingAsked ==
    /\ wallet_addresses = <<>>
    /\ balance_pc = <<>>
    /\ balance_calls = <<>>
    /\ balance_out = <<>>
    /\ balances = None

Init ==
    /\ sender_wallets \in SeqsUpTo(SenderWallet, MaxSenders)
    /\ recipients \in SeqsUpTo(RecipientAddress, MaxRecipients)
    /\ Len(sender_wallets) * Len(recipients) <= MaxPairs
    /\ main_pc = "execute_transfers"
    /\ NothingLaunched
    /\ results = <<>>
    /\ stats = None
    /\ NothingCalled
    /\ NothingWatched
    /\ NothingAsked
    /\ NothingConverted
    /\ NothingParsed

(***************************************************************************)
(* execute_transfers: the blockhash fetch and the launch.                  *)
(***************************************************************************)
FetchBlockhash ==
    /\ main_pc = "execute_transfers"
    /\ main_pc' = "get_recent_blockhash"
    /\ blockhash_calls' = blockhash_calls + 1
    /\ UNCHANGED <<rpc, watcher, oracle, config, stats, units, codec, fetched, blockhash, tasks, taskvars, results>>

Launch(hash) ==
    LET pushed == SenderLoop(sender_wallets, recipients)
        each(v) == [k \in DOMAIN pushed |-> v]
    IN  /\ blockhash' = Some(hash)
        /\ tasks' = [k \in DOMAIN pushed |-> [sender_clone |-> pushed[k].sender_clone,
                                              recipient_clone |-> pushed[k].recipient_clone,
                                              blockhash_clone |-> hash]]
        /\ pc' = each("Start")
        /\ awaiting' = each("nothing")
        /\ timer' = each("unset")
        /\ local' = each(NoLocal)
        /\ slept_ms' = each(0)
        /\ send_calls' = each(0)
        /\ status_calls' = each(0)
        /\ warned' = each(FALSE)
        /\ output' = each(None)
        /\ main_pc' = "join_all"
        /\ UNCHANGED <<rpc, watcher, oracle, config, stats, units, codec, blockhash_calls, results>>

(* Variant: a failed fetch falls back to the default hash and launches. *)
BlockhashReply_UnwrapOrDefault ==
    /\ main_pc = "get_recent_blockhash"
    /\ \E reply \in RpcReplies(BlockhashResult) :
         LET hash == get_recent_blockhash(reply) IN
         /\ fetched' = Some(hash)
         /\ Launch(IF hash.ok THEN hash.value ELSE "11111111111111111111111111111111")

BlockhashReply ==
    /\ main_pc = "get_recent_blockhash"
    /\ \E reply \in RpcReplies(BlockhashResult) :
         LET hash == get_recent_blockhash(reply) IN
         /\ fetched' = Some(hash)
         /\ IF hash.ok
            THEN Launch(hash.value)
            ELSE /\ results' = <<>>
                 /\ main_pc' = "print_statistics"
                 /\ UNCHANGED <<rpc, watcher, oracle, config, stats, units, codec, blockhash, blockhash_calls, tasks, taskvars>>

(***************************************************************************)
(* One task: the async block of execute_transfers.                         *)
(***************************************************************************)
(* Variant: a task that resolves with an error cancels its unfinished siblings. *)
Resolve_AbortSiblings(k, signature, status, error) ==
    LET own == TransferResult(tasks[k].sender_clone.address, tasks[k].recipient_clone,
                              signature, status, slept_ms[k], error)
        cancelled(j) == TransferResult(tasks[j].sender_clone.address,
                                       tasks[j].recipient_clone, "", None, slept_ms[j],
                                       Some(<<"cancelled">>))
    IN  IF error.some
        THEN /\ pc' = [j \in Tasks |-> "Done"]
             /\ output' = [j \in Tasks |->
                              IF j = k THEN Some(own)
                              ELSE IF output[j].some THEN output[j]
                              ELSE Some(cancelled(j))]
        ELSE /\ pc' = [pc EXCEPT ![k] = "Done"]
             /\ output' = [output EXCEPT ![k] = Some(own)]

(* Variant: the results are kept in one slot per sender address. *)
Resolve_KeyedBySender(k, signature, status, error) ==
    LET own == TransferResult(tasks[k].sender_clone.address, tasks[k].recipient_clone,
                              signature, status, slept_ms[k], error)
    IN  /\ pc' = [pc EXCEPT ![k] = "Done"]
        /\ output' = [j \in Tasks |->
                         IF j = k \/ (output[j].some /\ output[j].v.from_address = own.from_address)
                         THEN Some(own)
                         ELSE output[j]]

Resolve(k, signature, status, error) ==
    /\ pc' = [pc EXCEPT ![k] = "Done"]
    /\ output' = [output EXCEPT ![k] = Some(
           TransferResult(tasks[k].sender_clone.address, tasks[k].recipient_clone,
                          signature, status, slept_ms[k], error))]

(* Variant: the recipient address is validated before the keypair. *)
ParseKeypair_RecipientFirst(k) ==
    /\ pc[k] = "Start"
    /\ LET parsed == parse_keypair(tasks[k].sender_clone.private_key)
           address == PubkeyFromStr(tasks[k].recipient_clone) IN
       IF ~address.ok
       THEN /\ Resolve(k, "", None, Some(<<"Invalid recipient address">> \o address.error))
            /\ UNCHANGED local
       ELSE IF parsed.ok
       THEN /\ pc' = [pc EXCEPT ![k] = "KeypairParsed"]
            /\ local' = [local EXCEPT ![k].sender_keypair = Some(parsed.value)]
            /\ UNCHANGED output
       ELSE /\ Resolve(k, "", None, Some(<<"Failed to parse keypair">> \o parsed.error))
            /\ UNCHANGED local
    /\ UNCHANGED <<rpc, watcher, oracle, config, stats, units, codec, main_pc, fetched, blockhash, blockhash_calls, tasks, awaiting, timer,
                   slept_ms, send_calls, status_calls, warned, results>>

ParseKeypair(k) ==
    /\ pc[k] = "Start"
    /\ LET parsed == parse_keypair(tasks[k].sender_clone.private_key) IN
       IF parsed.ok
       THEN /\ pc' = [pc EXCEPT ![k] = "KeypairParsed"]
            /\ local' = [local EXCEPT ![k].sender_keypair = Some(parsed.value)]
            /\ UNCHANGED output
       ELSE /\ Resolve(k, "", None, Some(<<"Failed to parse keypair">> \o parsed.error))
            /\ UNCHANGED local
    /\ UNCHANGED <<rpc, watcher, oracle, config, stats, units, codec, main_pc, fetched, blockhash, blockhash_calls, tasks, awaiting, timer,
                   slept_ms, send_calls, status_calls, warned, results>>

(* Variant: an address that does not parse is replaced by the default Pubkey. *)
ParseRecipient_Lenient(k) ==
    /\ pc[k] = "KeypairParsed"
    /\ LET parsed == PubkeyFromStr(tasks[k].recipient_clone) IN
       /\ pc' = [pc EXCEPT ![k] = "RecipientParsed"]
       /\ local' = [local EXCEPT ![k].recipient_pubkey =
                        Some(IF parsed.ok THEN parsed.value ELSE "default_pubkey")]
       /\ UNCHANGED output
    /\ UNCHANGED <<rpc, watcher, oracle, config, stats, units, codec, main_pc, fetched, blockhash, blockhash_calls, tasks, awaiting, timer,
                   slept_ms, send_calls, status_calls, warned, results>>

ParseRecipient(k) ==
    /\ pc[k] = "KeypairParsed"
    /\ LET parsed == PubkeyFromStr(tasks[k].recipient_clone) IN
       IF parsed.ok
       THEN /\ pc' = [pc EXCEPT ![k] = "RecipientParsed"]
            /\ local' = [local EXCEPT ![k].recipient_pubkey = Some(parsed.value)]
            /\ UNCHANGED output
       ELSE /\ Resolve(k, "", None, Some(<<"Invalid recipient address">> \o parsed.error))
            /\ UNCHANGED local
    /\ UNCHANGED <<rpc, watcher, oracle, config, stats, units, codec, main_pc, fetched, blockhash, blockhash_calls, tasks, awaiting, timer,
                   slept_ms, send_calls, status_calls, warned, results>>

CreateTransaction(k) ==
    /\ pc[k] = "RecipientParsed"
    /\ LET built == create_transfer_transaction(local[k].sender_keypair.v,
                        local[k].recipient_pubkey.v, tasks[k].blockhash_clone) IN
       IF built.ok
       THEN /\ pc' = [pc EXCEPT ![k] = "TransactionSigned"]
            /\ local' = [local EXCEPT ![k].transaction = Some(built.value)]
            /\ UNCHANGED output
       ELSE /\ Resolve(k, "", None, Some(<<"Failed to create transaction">> \o built.error))
            /\ UNCHANGED local
    /\ UNCHANGED <<rpc, watcher, oracle, config, stats, units, codec, main_pc, fetched, blockhash, blockhash_calls, tasks, awaiting, timer,
                   slept_ms, send_calls, status_calls, warned, results>>

(* Variant: one submission at a time. *)
SendTransaction_OneAtATime(k) ==
    /\ pc[k] = "TransactionSigned"
    /\ awaiting[k] = "nothing"
    /\ \A j \in Tasks : awaiting[j] # "sendTransaction"
    /\ awaiting' = [awaiting EXCEPT ![k] = "sendTransaction"]
    /\ send_calls' = [send_calls EXCEPT ![k] = @ + 1]
    /\ UNCHANGED <<rpc, watcher, oracle, config, stats, units, codec, main_pc, fetched, blockhash, blockhash_calls, tasks, pc, timer, local,
                   slept_ms, status_calls, warned, output, results>>

SendTransaction(k) ==
    /\ pc[k] = "TransactionSigned"
    /\ awaiting[k] = "nothing"
    /\ awaiting' = [awaiting EXCEPT ![k] = "sendTransaction"]
    /\ send_calls' = [send_calls EXCEPT ![k] = @ + 1]
    /\ UNCHANGED <<rpc, watcher, oracle, config, stats, units, codec, main_pc, fetched, blockhash, blockhash_calls, tasks, pc, timer, local,
                   slept_ms, status_calls, warned, output, results>>

(* Variant: a failed submission goes back to build the transaction again. *)
SendReply_Rebuild(k) ==
    /\ pc[k] = "TransactionSigned"
    /\ awaiting[k] = "sendTransaction"
    /\ awaiting' = [awaiting EXCEPT ![k] = "nothing"]
    /\ \E reply \in RpcReplies({SignatureOf(k)}) :
         LET sent == send_transaction(reply) IN
         IF sent.ok
         THEN /\ pc' = [pc EXCEPT ![k] = "Submitted"]
              /\ local' = [local EXCEPT ![k].sent = Some(sent),
                                        ![k].signature = Some(sent.value)]
              /\ timer' = [timer EXCEPT ![k] = "armed"]
         ELSE /\ pc' = [pc EXCEPT ![k] = "RecipientParsed"]
              /\ local' = [local EXCEPT ![k].sent = Some(sent)]
              /\ UNCHANGED timer
    /\ UNCHANGED <<rpc, watcher, oracle, config, stats, units, codec, main_pc, fetched, blockhash, blockhash_calls, tasks, slept_ms,
                   send_calls, status_calls, warned, output, results>>

(* Variant: a failed submission is submitted again. *)
SendReply_Retry(k) ==
    /\ pc[k] = "TransactionSigned"
    /\ awaiting[k] = "sendTransaction"
    /\ awaiting' = [awaiting EXCEPT ![k] = "nothing"]
    /\ \E reply \in RpcReplies({SignatureOf(k)}) :
         LET sent == send_transaction(reply) IN
         IF sent.ok
         THEN /\ pc' = [pc EXCEPT ![k] = "Submitted"]
              /\ local' = [local EXCEPT ![k].sent = Some(sent),
                                        ![k].signature = Some(sent.value)]
              /\ timer' = [timer EXCEPT ![k] = "armed"]
         ELSE /\ local' = [local EXCEPT ![k].sent = Some(sent)]
              /\ UNCHANGED <<pc, timer>>
    /\ UNCHANGED <<rpc, watcher, oracle, config, stats, units, codec, main_pc, fetched, blockhash, blockhash_calls, tasks, slept_ms,
                   send_calls, status_calls, warned, output, results>>

SendReply(k) ==
    /\ pc[k] = "TransactionSigned"
    /\ awaiting[k] = "sendTransaction"
    /\ awaiting' = [awaiting EXCEPT ![k] = "nothing"]
    /\ \E reply \in RpcReplies({SignatureOf(k)}) :
         LET sent == send_transaction(reply) IN
         IF sent.ok
         THEN /\ pc' = [pc EXCEPT ![k] = "Submitted"]
              /\ local' = [local EXCEPT ![k].sent = Some(sent),
                                        ![k].signature = Some(sent.value)]
              /\ timer' = [timer EXCEPT ![k] = "armed"]
              /\ UNCHANGED output
         ELSE /\ Resolve(k, "", None, Some(<<"Failed to send transaction">> \o sent.error))
              /\ local' = [local EXCEPT ![k].sent = Some(sent)]
              /\ UNCHANGED timer
    /\ UNCHANGED <<rpc, watcher, oracle, config, stats, units, codec, main_pc, fetched, blockhash, blockhash_calls, tasks, slept_ms,
                   send_calls, status_calls, warned, results>>

SleepElapses(k) ==
    /\ pc[k] = "Submitted"
    /\ timer[k] = "armed"
    /\ timer' = [timer EXCEPT ![k] = "elapsed"]
    /\ slept_ms' = [slept_ms EXCEPT ![k] = @ + ConfirmationWaitMs]
    /\ UNCHANGED <<rpc, watcher, oracle, config, stats, units, codec, main_pc, fetched, blockhash, blockhash_calls, tasks, pc, awaiting,
                   local, send_calls, status_calls, warned, output, results>>

(* Variant: the status query does not wait for the sleep. *)
GetSignatureStatus_NoWait(k) ==
    /\ pc[k] = "Submitted"
    /\ awaiting[k] = "nothing"
    /\ awaiting' = [awaiting EXCEPT ![k] = "getSignatureStatus"]
    /\ status_calls' = [status_calls EXCEPT ![k] = @ + 1]
    /\ UNCHANGED <<rpc, watcher, oracle, config, stats, units, codec, main_pc, fetched, blockhash, blockhash_calls, tasks, pc, timer, local,
                   slept_ms, send_calls, warned, output, results>>

GetSignatureStatus(k) ==
    /\ pc[k] = "Submitted"
    /\ timer[k] = "elapsed"
    /\ awaiting[k] = "nothing"
    /\ awaiting' = [awaiting EXCEPT ![k] = "getSignatureStatus"]
    /\ status_calls' = [status_calls EXCEPT ![k] = @ + 1]
    /\ UNCHANGED <<rpc, watcher, oracle, config, stats, units, codec, main_pc, fetched, blockhash, blockhash_calls, tasks, pc, timer, local,
                   slept_ms, send_calls, warned, output, results>>

StatusReply(k) ==
    /\ pc[k] = "Submitted"
    /\ awaiting[k] = "getSignatureStatus"
    /\ awaiting' = [awaiting EXCEPT ![k] = "nothing"]
    /\ pc' = [pc EXCEPT ![k] = "StatusChecked"]
    /\ \E reply \in RpcReplies(SignatureStatusResult) :
         LET queried == get_signature_status(reply) IN
         IF queried.ok
         THEN /\ local' = [local EXCEPT ![k].status = queried.value]
              /\ UNCHANGED warned
         ELSE /\ local' = [local EXCEPT ![k].status = None]
              /\ warned' = [warned EXCEPT ![k] = TRUE]
    /\ UNCHANGED <<rpc, watcher, oracle, config, stats, units, codec, main_pc, fetched, blockhash, blockhash_calls, tasks, timer, slept_ms,
                   send_calls, status_calls, output, results>>

(* Variant: the error of the status query becomes the error of the result. *)
Finish_SurfaceStatusError(k) ==
    /\ pc[k] = "StatusChecked"
    /\ Resolve(k, local[k].signature.v, local[k].status,
               IF warned[k] THEN Some(<<"Failed to get status">>) ELSE None)
    /\ UNCHANGED <<rpc, watcher, oracle, config, stats, units, codec, main_pc, fetched, blockhash, blockhash_calls, tasks, awaiting, timer,
                   local, slept_ms, send_calls, status_calls, warned, results>>

(* Variant: the result is built without the signature of the submission. *)
Finish_EmptySignature(k) ==
    /\ pc[k] = "StatusChecked"
    /\ Resolve(k, "", local[k].status, None)
    /\ UNCHANGED <<rpc, watcher, oracle, config, stats, units, codec, main_pc, fetched, blockhash, blockhash_calls, tasks, awaiting, timer,
                   local, slept_ms, send_calls, status_calls, warned, results>>

(* Variant: the result is built without the status that was observed. *)
Finish_DropStatus(k) ==
    /\ pc[k] = "StatusChecked"
    /\ Resolve(k, local[k].signature.v, None, None)
    /\ UNCHANGED <<rpc, watcher, oracle, config, stats, units, codec, main_pc, fetched, blockhash, blockhash_calls, tasks, awaiting, timer,
                   local, slept_ms, send_calls, status_calls, warned, results>>

(* Variant: the task resolves only once a status has been observed. *)
Finish_AwaitConfirmation(k) ==
    /\ pc[k] = "StatusChecked"
    /\ local[k].status.some
    /\ Resolve(k, local[k].signature.v, local[k].status, None)
    /\ UNCHANGED <<rpc, watcher, oracle, config, stats, units, codec, main_pc, fetched, blockhash, blockhash_calls, tasks, awaiting, timer,
                   local, slept_ms, send_calls, status_calls, warned, results>>

Finish(k) ==
    /\ pc[k] = "StatusChecked"
    /\ Resolve(k, local[k].signature.v, local[k].status, None)
    /\ UNCHANGED <<rpc, watcher, oracle, config, stats, units, codec, main_pc, fetched, blockhash, blockhash_calls, tasks, awaiting, timer,
                   local, slept_ms, send_calls, status_calls, warned, results>>

(***************************************************************************)
(* join_all and the return to main.                                        *)
(***************************************************************************)
RECURSIVE WithoutErrors(_)
WithoutErrors(rs) ==
    IF rs = <<>> THEN <<>>
    ELSE (IF Head(rs).error.some THEN <<>> ELSE <<Head(rs)>>) \o WithoutErrors(Tail(rs))

(* Variant: the results that carry an error are filtered out of the return value. *)
JoinAll_DropFailed ==
    /\ main_pc = "join_all"
    /\ \A k \in Tasks : pc[k] = "Done"
    /\ results' = WithoutErrors([k \in Tasks |-> output[k].v])
    /\ main_pc' = "print_statistics"
    /\ UNCHANGED <<rpc, watcher, oracle, config, stats, units, codec, fetched, blockhash, blockhash_calls, tasks, taskvars>>

RECURSIVE Resolved(_)
Resolved(outs) ==
    IF outs = <<>> THEN <<>>
    ELSE (IF Head(outs).some THEN <<Head(outs).v>> ELSE <<>>) \o Resolved(Tail(outs))

(* Variant: the return does not wait for the tasks that are still running. *)
JoinAll_FirstCompleted ==
    /\ main_pc = "join_all"
    /\ Tasks = {} \/ \E j \in Tasks : pc[j] = "Done"
    /\ results' = Resolved(output)
    /\ main_pc' = "print_statistics"
    /\ UNCHANGED <<rpc, watcher, oracle, config, stats, units, codec, fetched, blockhash, blockhash_calls, tasks, taskvars>>

(* Variant: the results are returned as they complete, the early failures first. *)
JoinAll_CompletionOrder ==
    /\ main_pc = "join_all"
    /\ \A k \in Tasks : pc[k] = "Done"
    /\ results' = SelectSeq([k \in Tasks |-> output[k].v], LAMBDA r : r.error.some)
                     \o WithoutErrors([k \in Tasks |-> output[k].v])
    /\ main_pc' = "print_statistics"
    /\ UNCHANGED <<rpc, watcher, oracle, config, stats, units, codec, fetched, blockhash, blockhash_calls, tasks, taskvars>>

JoinAll ==
    /\ main_pc = "join_all"
    /\ \A k \in Tasks : pc[k] = "Done"
    /\ results' = [k \in Tasks |-> output[k].v]
    /\ main_pc' = "print_statistics"
    /\ UNCHANGED <<rpc, watcher, oracle, config, stats, units, codec, fetched, blockhash, blockhash_calls, tasks, taskvars>>

PrintStatistics ==
    /\ main_pc = "print_statistics"
    /\ stats' = Some(print_statistics(results))
    /\ main_pc' = "exit"
    /\ UNCHANGED <<rpc, watcher, oracle, config, units, codec, fetched, blockhash, blockhash_calls, tasks, taskvars, results>>

Step(k) ==
    \/ ParseKeypair(k)
    \/ ParseRecipient(k)
    \/ CreateTransaction(k)
    \/ SendTransaction(k)
    \/ SendReply(k)
    \/ SleepElapses(k)
    \/ GetSignatureStatus(k)
    \/ StatusReply(k)
    \/ Finish(k)

Next ==
    \/ FetchBlockhash
    \/ BlockhashReply
    \/ \E k \in Tasks : Step(k)
    \/ JoinAll
    \/ PrintStatistics

Spec == Init /\ [][Next]_vars

(***************************************************************************)
(* Fair scheduling: join_all polls every task that can make progress, the  *)
(* runtime fires every armed timer, and every RPC call returns.            *)
(***************************************************************************)
TaskIds == 1..MaxPairs

FairSpec ==
    /\ Spec
    /\ WF_vars(FetchBlockhash)
    /\ WF_vars(BlockhashReply)
    /\ WF_vars(JoinAll)
    /\ WF_vars(PrintStatistics)
    /\ \A k \in TaskIds : WF_vars(k \in Tasks /\ Step(k))

(***************************************************************************)
(* print_statistics on its own: it is applied to every collection of up to *)
(* MaxResults results of the shapes a task can resolve to.                 *)
(***************************************************************************)
MaxResults == 3

ProcessingTimes == {0, ConfirmationWaitMs, ConfirmationWaitMs + 500}

TransferResults ==
    { TransferResult("SENDER_1", "RECIPIENT_1", "", None, t,
                     Some(<<"Failed to send transaction", "reqwest::Error">>)) :
        t \in ProcessingTimes }
    \cup
    { TransferResult("SENDER_1", "RECIPIENT_1", "SIG_A", st, t, None) :
        st \in {None} \cup { Some(x) : x \in SignatureStatus }, t \in ProcessingTimes }

StatsInit ==
    /\ results \in SeqsUpTo(TransferResults, MaxResults)
    /\ main_pc = "print_statistics"
    /\ sender_wallets = <<>>
    /\ recipients = <<>>
    /\ NothingLaunched
    /\ stats = None
    /\ NothingCalled
    /\ NothingWatched
    /\ NothingAsked
    /\ NothingConverted
    /\ NothingParsed

StatsSpec == StatsInit /\ [][PrintStatistics]_vars

(***************************************************************************)
(* parse_keypair on its own: the texts it is given, and one call.          *)
(***************************************************************************)
MaxKeyChars == 66

PrivateKeyTexts ==
    { Ones(n) : n \in 0..MaxKeyChars }
    \cup { Ones(n) \o "0" : n \in {0, KeypairBytes - 1, KeypairBytes} }
    \cup { "KEY_64_BYTES", "KEY_64_BYTES_OFF_CURVE", "KEY_32_BYTES", "KEY_NOT_BASE58" }

KeyInit ==
    /\ private_key \in PrivateKeyTexts
    /\ keypair = None
    /\ main_pc = "parse_keypair"
    /\ sender_wallets = <<>>
    /\ recipients = <<>>
    /\ NothingLaunched
    /\ results = <<>>
    /\ stats = None
    /\ NothingCalled
    /\ NothingWatched
    /\ NothingAsked
    /\ NothingConverted

ParseKey ==
    /\ main_pc = "parse_keypair"
    /\ keypair = None
    /\ keypair' = Some(parse_keypair(private_key))
    /\ UNCHANGED <<rpc, watcher, oracle, config, stats, units, private_key, main_pc, fetched, blockhash, blockhash_calls,
                   tasks, taskvars, results>>

KeySpec == KeyInit /\ [][ParseKey]_vars

(***************************************************************************)
(* The unit conversions on their own: config.amount_sol is converted by    *)
(* main, and the amount in lamports is converted back.                     *)
(***************************************************************************)
MaxSignificand == 7
MaxExponent == 40

Amounts ==
    LET positive == { F64(m, e) : m \in { n \in 1..MaxSignificand : n % 2 = 1 },
                                  e \in -MaxExponent..MaxExponent }
    IN  {F64(0, 0)} \cup positive \cup { Negative(x) : x \in positive }

ConvInit ==
    /\ amount_sol \in Amounts
    /\ amount_lamports = None
    /\ sol_balance = None
    /\ main_pc = "sol_to_lamports"
    /\ sender_wallets = <<>>
    /\ recipients = <<>>
    /\ NothingLaunched
    /\ results = <<>>
    /\ stats = None
    /\ NothingCalled
    /\ NothingWatched
    /\ NothingAsked
    /\ NothingParsed

SolToLamports ==
    /\ main_pc = "sol_to_lamports"
    /\ amount_lamports' = Some(sol_to_lamports(amount_sol))
    /\ main_pc' = "lamports_to_sol"
    /\ UNCHANGED <<rpc, watcher, oracle, config, stats, codec, amount_sol, sol_balance, fetched, blockhash,
                   blockhash_calls, tasks, taskvars, results>>

LamportsToSol ==
    /\ main_pc = "lamports_to_sol"
    /\ sol_balance' = Some(lamports_to_sol(amount_lamports.v))
    /\ main_pc' = "exit"
    /\ UNCHANGED <<rpc, watcher, oracle, config, stats, codec, amount_sol, amount_lamports, fetched, blockhash,
                   blockhash_calls, tasks, taskvars, results>>

ConvNext == SolToLamports \/ LamportsToSol

ConvSpec == ConvInit /\ [][ConvNext]_vars

(***************************************************************************)
(* One JSON-RPC call on its own: the method, every shape of reply, and the *)
(* return of the function that made the call.                              *)
(***************************************************************************)
RpcMethods == { "getLatestBlockhash", "sendTransaction", "getSignatureStatus" }

JsonRpcErrors ==
    { JsonRpcError }
    \cup [code : {"-32002", "-32005"},
          message : {"Transaction simulation failed", "Node is behind by 42 slots"}]

RpcPayloads(method) ==
    CASE method = "getLatestBlockhash" -> BlockhashResult
      [] method = "sendTransaction"    -> { "SIG_A", "SIG_B" }
      [] method = "getSignatureStatus" -> SignatureStatusResult

RpcRepliesTo(method) ==
    {TransportFailure}
    \cup [transport : {TRUE},
          result : {None} \cup { Some(p) : p \in RpcPayloads(method) },
          error : {None} \cup { Some(e) : e \in JsonRpcErrors }]

RpcInit ==
    /\ rpc_method \in RpcMethods
    /\ rpc_reply \in RpcRepliesTo(rpc_method)
    /\ rpc_outcome = None
    /\ main_pc = "rpc"
    /\ sender_wallets = <<>>
    /\ recipients = <<>>
    /\ NothingLaunched
    /\ results = <<>>
    /\ stats = None
    /\ NothingConverted
    /\ NothingParsed
    /\ NothingWatched
    /\ NothingAsked

RpcReturn ==
    /\ main_pc = "rpc"
    /\ rpc_outcome = None
    /\ rpc_outcome' = Some(CASE rpc_method = "getLatestBlockhash" -> get_recent_blockhash(rpc_reply)
                             [] rpc_method = "sendTransaction"    -> send_transaction(rpc_reply)
                             [] rpc_method = "getSignatureStatus" -> get_signature_status(rpc_reply))
    /\ UNCHANGED <<rpc_method, rpc_reply, watcher, oracle, config, stats, units, codec, main_pc,
                   fetched, blockhash, blockhash_calls, tasks, taskvars, results>>

RpcSpec == RpcInit /\ [][RpcReturn]_vars

(***************************************************************************)
(* geyser-watcher: the loop of main around SolTransferBot::run.  The model *)
(* starts where main enters the loop, the configuration loaded.            *)
(***************************************************************************)
MaxItems == 3

transfer == <<config, stats, units, codec, main_pc, fetched, blockhash, blockhash_calls,
              tasks, taskvars, results>>

ReconnectSleepS == 5
RestartSleepS == 10

(* What stream.next() yields: Some(Ok(update)) with the oneof of the       *)
(* update (Empty when it is None), Some(Err(status)), or None when the     *)
(* stream is closed.                                                       *)
Updates == { "Block", "Ping", "Pong", "Other" }
StreamItems == Updates \cup { "Empty", "Error", "Closed" }

PingRequest == [ping |-> [id |-> 1]]

WatcherInit ==
    /\ bot_pc = "connect_geyser"
    /\ received = <<>>
    /\ subscribe_tx = <<>>
    /\ bot_slept_s = 0
    /\ main_pc = "loop"
    /\ sender_wallets = <<>>
    /\ recipients = <<>>
    /\ NothingLaunched
    /\ results = <<>>
    /\ stats = None
    /\ NothingConverted
    /\ NothingParsed
    /\ NothingCalled
    /\ NothingAsked

(* self.connect_geyser().await? *)
ConnectGeyser ==
    /\ bot_pc = "connect_geyser"
    /\ \E connected \in BOOLEAN :
          bot_pc' = IF connected THEN "subscribe_with_request" ELSE "run_err"
    /\ bot_slept_s' = 0
    /\ UNCHANGED <<received, subscribe_tx, rpc, oracle, transfer>>

(* geyser_client.subscribe_with_request(Some(request)).await? *)
SubscribeWithRequest ==
    /\ bot_pc = "subscribe_with_request"
    /\ \E subscribed \in BOOLEAN :
          bot_pc' = IF subscribed THEN "stream_next" ELSE "run_err"
    /\ received' = <<>>
    /\ subscribe_tx' = <<>>
    /\ UNCHANGED <<bot_slept_s, rpc, oracle, transfer>>

(* One turn of `while let Some(message) = stream.next().await`, up to the  *)
(* next await or the end of the loop.                                      *)
StreamNext ==
    /\ bot_pc = "stream_next"
    /\ \E item \in StreamItems :
          /\ item \in Updates => Len(received) < MaxItems
          /\ received' = Append(received, item)
          /\ subscribe_tx' = IF item = "Ping"
                              THEN Append(subscribe_tx, PingRequest)
                              ELSE subscribe_tx
          /\ bot_pc' = CASE item = "Ping"                -> "send_ping"
                          [] item \in {"Empty", "Closed"} -> "run_ok"
                          [] item = "Error"               -> "reconnect_sleep"
                          [] OTHER                        -> "stream_next"
    /\ UNCHANGED <<bot_slept_s, rpc, oracle, transfer>>

(* subscribe_tx.send(..).await? *)
SendPing ==
    /\ bot_pc = "send_ping"
    /\ \E sent \in BOOLEAN :
          bot_pc' = IF sent THEN "stream_next" ELSE "run_err"
    /\ UNCHANGED <<received, subscribe_tx, bot_slept_s, rpc, oracle, transfer>>

(* the sleep of the stream-error arm, then break and Ok(()) *)
ReconnectSleep ==
    /\ bot_pc = "reconnect_sleep"
    /\ bot_slept_s' = bot_slept_s + ReconnectSleepS
    /\ bot_pc' = "run_ok"
    /\ UNCHANGED <<received, subscribe_tx, rpc, oracle, transfer>>

(* Variant: main leaves its loop when run returns Ok. *)
RunAgain_UntilOk ==
    /\ bot_pc = "run_ok"
    /\ bot_pc' = "exit"
    /\ UNCHANGED <<received, subscribe_tx, bot_slept_s, rpc, oracle, transfer>>

(* run returned Ok(()): the loop of main calls it again *)
RunAgain ==
    /\ bot_pc = "run_ok"
    /\ bot_pc' = "connect_geyser"
    /\ UNCHANGED <<received, subscribe_tx, bot_slept_s, rpc, oracle, transfer>>

(* run returned Err(e): the message is printed and the sleep starts *)
BotError ==
    /\ bot_pc = "run_err"
    /\ bot_pc' = "restart_sleep"
    /\ UNCHANGED <<received, subscribe_tx, bot_slept_s, rpc, oracle, transfer>>

(* the sleep is over: the loop of main calls run again *)
RestartSleep ==
    /\ bot_pc = "restart_sleep"
    /\ bot_slept_s' = bot_slept_s + RestartSleepS
    /\ bot_pc' = "connect_geyser"
    /\ UNCHANGED <<received, subscribe_tx, rpc, oracle, transfer>>

WatcherNext ==
    \/ ConnectGeyser
    \/ SubscribeWithRequest
    \/ StreamNext
    \/ SendPing
    \/ ReconnectSleep
    \/ RunAgain
    \/ BotError
    \/ RestartSleep

(* The loop of main has no await between two runs, and the tokio timers fire. *)
WatcherSpec ==
    /\ WatcherInit
    /\ [][WatcherNext]_vars
    /\ WF_vars(ReconnectSleep)
    /\ WF_vars(RunAgain)
    /\ WF_vars(BotError)
    /\ WF_vars(RestartSleep)

(***************************************************************************)
(* balance-fetcher: get_balances, one future per input address, join_all,  *)
(* and the collection of the pairs into a HashMap.                         *)
(***************************************************************************)
MaxWallets == 3

WalletAddresses == { "WALLET_1", "WALLET_2" }

BalanceResult == { [context |-> [slot |-> 1], value |-> v] : v \in {0, 5} }

(* get_single_balance, from the reply on *)
get_single_balance(reply) ==
    IF ~reply.transport THEN Err(<<"reqwest::Error">>)
    ELSE IF reply.error.some THEN Err(RpcErrorText(reply.error.v))
    ELSE IF reply.result.some THEN Ok(reply.result.v.value)
    ELSE Err(<<"No result in response">>)

Wallets == DOMAIN wallet_addresses

(* HashMap::insert *)
Insert(map, key, value) ==
    [k \in DOMAIN map \cup {key} |-> IF k = key THEN value ELSE map[k]]

(* Variant: an address that is already in the map keeps its entry. *)
RECURSIVE HashMapFromIter_FirstWins(_)
HashMapFromIter_FirstWins(pairs) ==
    IF pairs = <<>> THEN <<>>
    ELSE LET rest == HashMapFromIter_FirstWins(SubSeq(pairs, 1, Len(pairs) - 1))
             last == pairs[Len(pairs)]
         IN  IF last[1] \in DOMAIN rest THEN rest ELSE Insert(rest, last[1], last[2])

(* results.into_iter().collect(): the pairs are inserted in order *)
RECURSIVE HashMapFromIter(_)
HashMapFromIter(pairs) ==
    IF pairs = <<>> THEN <<>>
    ELSE LET rest == HashMapFromIter(SubSeq(pairs, 1, Len(pairs) - 1))
             last == pairs[Len(pairs)]
         IN  Insert(rest, last[1], last[2])

OracleInit ==
    /\ wallet_addresses \in SeqsUpTo(WalletAddresses, MaxWallets)
    /\ balance_pc = [i \in DOMAIN wallet_addresses |-> "Start"]
    /\ balance_calls = [i \in DOMAIN wallet_addresses |-> 0]
    /\ balance_out = [i \in DOMAIN wallet_addresses |-> None]
    /\ balances = None
    /\ main_pc = "get_balances"
    /\ sender_wallets = <<>>
    /\ recipients = <<>>
    /\ NothingLaunched
    /\ results = <<>>
    /\ stats = None
    /\ NothingConverted
    /\ NothingParsed
    /\ NothingCalled
    /\ NothingWatched

(* the i-th future sends its getBalance request *)
GetSingleBalance(i) ==
    /\ main_pc = "get_balances"
    /\ balance_pc[i] = "Start"
    /\ balance_pc' = [balance_pc EXCEPT ![i] = "Awaiting"]
    /\ balance_calls' = [balance_calls EXCEPT ![i] = @ + 1]
    /\ UNCHANGED <<wallet_addresses, balance_out, balances, rpc, watcher, transfer>>

(* the reply arrives: the future resolves to (address, Ok(balance)) or to  *)
(* (address, Err(e.to_string()))                                           *)
BalanceReply(i) ==
    /\ balance_pc[i] = "Awaiting"
    /\ \E reply \in RpcReplies(BalanceResult) :
          balance_out' = [balance_out EXCEPT
                             ![i] = Some(<<wallet_addresses[i], get_single_balance(reply)>>)]
    /\ balance_pc' = [balance_pc EXCEPT ![i] = "Done"]
    /\ UNCHANGED <<wallet_addresses, balance_calls, balances, rpc, watcher, transfer>>

(* join_all(tasks).await and collect() *)
CollectBalances ==
    /\ main_pc = "get_balances"
    /\ \A i \in Wallets : balance_pc[i] = "Done"
    /\ balances' = Some(HashMapFromIter([i \in Wallets |-> balance_out[i].v]))
    /\ main_pc' = "print_balances"
    /\ UNCHANGED <<wallet_addresses, balance_pc, balance_calls, balance_out, rpc, watcher,
                   config, stats, units, codec, fetched, blockhash, blockhash_calls, tasks,
                   taskvars, results>>

OracleNext ==
    \/ \E i \in Wallets : GetSingleBalance(i)
    \/ \E i \in Wallets : BalanceReply(i)
    \/ CollectBalances

OracleSpec == OracleInit /\ [][OracleNext]_vars

(***************************************************************************)
(* Vocabulary of the properties.                                           *)
(***************************************************************************)
S == Len(sender_wallets)
R == Len(recipients)

Returned == main_pc \in {"print_statistics", "exit"}
FetchSucceeded == fetched.some /\ fetched.v.ok
FetchFailed == fetched.some /\ ~fetched.v.ok

RECURSIVE Sum(_)
Sum(f) == IF f = <<>> THEN 0 ELSE Head(f) + Sum(Tail(f))

SenderAddresses == { w.address : w \in SenderWallet }

PairsWith(from, to) ==
    { p \in (1..S) \X (1..R) :
        sender_wallets[p[1]].address = from /\ recipients[p[2]] = to }

ResultsWith(from, to) ==
    { n \in DOMAIN results :
        results[n].from_address = from /\ results[n].to_address = to }

(***************************************************************************)
(* C1.  When the blockhash fetch succeeds, execute_transfers returns        *)
(* exactly S*R results, and for every (from, to) address pair as many      *)
(* results as there are (sender index, recipient index) pairs with these   *)
(* addresses: no pair's result is dropped, none is duplicated, whichever   *)
(* pairs fail.                                                             *)
(***************************************************************************)
C1_OneResultPerPair ==
    (Returned /\ FetchSucceeded) =>
        /\ Len(results) = S * R
        /\ \A from \in SenderAddresses, to \in RecipientAddress :
              Cardinality(ResultsWith(from, to)) = Cardinality(PairsWith(from, to))

C1_Witness ==
    /\ Returned /\ FetchSucceeded
    /\ S = 2 /\ R = 2
    /\ Len(results) = 4
    /\ \E n \in DOMAIN results : results[n].error.some
    /\ \E n \in DOMAIN results : ~results[n].error.some

(***************************************************************************)
(* C2.  When the blockhash fetch fails, execute_transfers has returned an  *)
(* empty Vec, no task was created, and no sendTransaction and no           *)
(* getSignatureStatus request was sent, whatever the list sizes.           *)
(***************************************************************************)
C2_FetchFailureDoesNothing ==
    FetchFailed =>
        /\ Returned
        /\ results = <<>>
        /\ tasks = <<>>
        /\ Sum(send_calls) = 0
        /\ Sum(status_calls) = 0

C2_Witness ==
    /\ FetchFailed
    /\ main_pc = "exit"
    /\ S = 2 /\ R = 2

(***************************************************************************)
(* C3.  An error of one task stays in that task: the step in which a task  *)
(* resolves with an error, or in which its status query fails, changes no  *)
(* variable of any other task, does not change the task list, and leaves   *)
(* execute_transfers where it is; and every task that has not resolved can *)
(* take its next step whatever has happened to its siblings.               *)
(***************************************************************************)
TaskState(k) ==
    <<pc[k], awaiting[k], timer[k], local[k], slept_ms[k], send_calls[k],
      status_calls[k], warned[k], output[k]>>

ErrorStep(k) ==
    \/ ~output[k].some /\ output'[k].some /\ output'[k].v.error.some
    \/ ~warned[k] /\ warned'[k]

C3_ErrorsStayLocal ==
    /\ [](\A k \in Tasks : pc[k] # "Done" => ENABLED Step(k))
    /\ [][\A k \in Tasks :
            ErrorStep(k) =>
                /\ \A j \in Tasks \ {k} : TaskState(j)' = TaskState(j)
                /\ tasks' = tasks
                /\ main_pc' = main_pc
                /\ results' = results]_vars

C3_Witness ==
    \E k, j \in Tasks :
        /\ output[k].some /\ output[k].v.error.some
        /\ local[k].sent.some /\ ~local[k].sent.v.ok
        /\ output[j].some /\ ~output[j].v.error.some /\ output[j].v.status.some

(***************************************************************************)
(* C4.  Every change of a task's state goes to the next state of the order *)
(* Start, KeypairParsed, RecipientParsed, TransactionSigned, Submitted,    *)
(* StatusChecked, Done, or directly to Done; Done is never left.           *)
(***************************************************************************)
Rank(state) ==
    CASE state = "Start"             -> 1
      [] state = "KeypairParsed"     -> 2
      [] state = "RecipientParsed"   -> 3
      [] state = "TransactionSigned" -> 4
      [] state = "Submitted"         -> 5
      [] state = "StatusChecked"     -> 6
      [] state = "Done"              -> 7

C4_LinearStateMachine ==
    [][\A k \in Tasks :
         pc'[k] # pc[k] =>
             /\ pc[k] # "Done"
             /\ \/ Rank(pc'[k]) = Rank(pc[k]) + 1
                \/ pc'[k] = "Done"]_vars

C4_Witness ==
    \E k, j \in Tasks :
        /\ pc[k] = "Done" /\ ~output[k].v.error.some
        /\ pc[j] = "Done" /\ local[j].transaction.some /\ output[j].v.error.some

(***************************************************************************)
(* C5.  A task in which the keypair parse, the recipient parse or the      *)
(* submission has failed is Done with a result that carries an error, and  *)
(* no task sends more than one sendTransaction request.                    *)
(***************************************************************************)
Failed(k) ==
    \/ pc[k] # "Start" /\ ~parse_keypair(tasks[k].sender_clone.private_key).ok
    \/ pc[k] \notin {"Start", "KeypairParsed"} /\ ~PubkeyFromStr(tasks[k].recipient_clone).ok
    \/ local[k].sent.some /\ ~local[k].sent.v.ok

C5_FailureEndsTheTask ==
    \A k \in Tasks :
        /\ send_calls[k] <= 1
        /\ Failed(k) => pc[k] = "Done" /\ output[k].v.error.some

C5_Witness ==
    \E k \in Tasks :
        /\ pc[k] = "Done"
        /\ send_calls[k] = 1
        /\ local[k].sent.some /\ ~local[k].sent.v.ok
        /\ output[k].v.error.some

(***************************************************************************)
(* C6.  A task sends a getSignatureStatus request only after its           *)
(* submission has returned a signature and its sleep has elapsed; a task   *)
(* that is Done after a successful submission has sent exactly one, and a  *)
(* task that is Done with an error has sent none.                          *)
(***************************************************************************)
Submitted(k) == local[k].sent.some /\ local[k].sent.v.ok

C6_OneStatusQueryAfterTheWait ==
    \A k \in Tasks :
        /\ status_calls[k] <= 1
        /\ status_calls[k] > 0 =>
              /\ Submitted(k)
              /\ timer[k] = "elapsed"
              /\ slept_ms[k] >= ConfirmationWaitMs
        /\ (pc[k] = "Done" /\ Submitted(k)) => status_calls[k] = 1
        /\ (pc[k] = "Done" /\ output[k].v.error.some) => status_calls[k] = 0

C6_Witness ==
    \E k, j \in Tasks :
        /\ pc[k] = "Done" /\ Submitted(k) /\ status_calls[k] = 1
        /\ pc[j] = "Done" /\ output[j].v.error.some /\ status_calls[j] = 0

(***************************************************************************)
(* C7.  A task whose status query failed (the warning was printed)         *)
(* resolves to a result without an error, with the signature its           *)
(* submission returned and with an absent status.                          *)
(***************************************************************************)
C7_StatusFailureIsNotAnError ==
    \A k \in Tasks :
        (pc[k] = "Done" /\ warned[k]) =>
            /\ Submitted(k)
            /\ ~output[k].v.error.some
            /\ output[k].v.signature = local[k].sent.v.value
            /\ output[k].v.status = None

C7_Witness ==
    \E k \in Tasks : pc[k] = "Done" /\ warned[k] /\ output[k].v.signature = SignatureOf(k)

(***************************************************************************)
(* C8.  Once execute_transfers has returned, or main holds any result,     *)
(* every task of the batch is Done.                                        *)
(***************************************************************************)
C8_ReturnAfterAllDone ==
    (Returned \/ results # <<>>) =>
        \A k \in Tasks : pc[k] = "Done" /\ output[k].some

C8_Witness ==
    /\ Returned
    /\ Len(tasks) = 4
    /\ Len(results) = 4
    /\ \E n \in DOMAIN results : ~results[n].error.some

(***************************************************************************)
(* C9.  Under fair scheduling, once the tasks are launched every one of    *)
(* them reaches Done and execute_transfers returns.                        *)
(***************************************************************************)
C9_BatchTerminates ==
    (main_pc = "join_all") ~> (Returned /\ \A k \in Tasks : pc[k] = "Done")

C9_Witness ==
    /\ main_pc = "exit"
    /\ Len(tasks) = 4
    /\ \A k \in Tasks : pc[k] = "Done" /\ Submitted(k)

(***************************************************************************)
(* C10.  Exactly one getLatestBlockhash request is sent per batch; tasks   *)
(* exist only after it has returned a blockhash; every task's copy and     *)
(* every transaction built carries that blockhash; and once fetched the    *)
(* blockhash is never changed.                                             *)
(***************************************************************************)
C10_OneSharedBlockhash ==
    /\ [](/\ blockhash_calls <= 1
          /\ main_pc # "execute_transfers" => blockhash_calls = 1
          /\ Tasks # {} => FetchSucceeded /\ blockhash = Some(fetched.v.value)
          /\ \A k \in Tasks :
                /\ tasks[k].blockhash_clone = blockhash.v
                /\ local[k].transaction.some =>
                      local[k].transaction.v.recent_blockhash = blockhash.v)
    /\ [][blockhash.some => blockhash' = blockhash]_vars

C10_Witness ==
    /\ blockhash_calls = 1
    /\ Len(tasks) = 4
    /\ \A k \in Tasks : local[k].transaction.some

(***************************************************************************)
(* C11.  For every collection given to print_statistics, the failed count  *)
(* is the number of results with an error, the successful count is the     *)
(* number of results without one, and their sum, the printed total, is the *)
(* number of results.                                                      *)
(***************************************************************************)
WithError == { n \in DOMAIN results : results[n].error.some }
WithoutError == { n \in DOMAIN results : ~results[n].error.some }

C11_CountsAddUp ==
    stats.some =>
        /\ stats.v.failed = Cardinality(WithError)
        /\ stats.v.successful = Cardinality(WithoutError)
        /\ stats.v.successful + stats.v.failed = Len(results)
        /\ stats.v.total = Len(results)

C11_Witness ==
    /\ stats.some
    /\ Len(results) = 3
    /\ stats.v.failed = 1
    /\ stats.v.successful = 2

(***************************************************************************)
(* C12.  print_statistics never divides by zero: the average is computed   *)
(* exactly when the successful count is positive, also for the empty       *)
(* collection and for a collection of failed results only.                 *)
(***************************************************************************)
C12_NoDivisionByZero ==
    stats.some =>
        /\ ~stats.v.avg_time.panic
        /\ stats.v.avg_time.computed <=> stats.v.successful > 0
        /\ stats.v.avg_time.computed =>
              stats.v.avg_time.value * stats.v.successful <= stats.v.total_time

C12_Witness ==
    /\ stats.some
    /\ Len(results) = 2
    /\ stats.v.successful = 0
    /\ ~stats.v.avg_time.computed

(***************************************************************************)
(* C13.  A task that is Done stays Done and its TransferResult is never    *)
(* changed again; a step that writes the result of one task writes the     *)
(* result of no other task; and the Vec handed to main is not changed      *)
(* after the return.                                                       *)
(***************************************************************************)
C13_ResultsAreFinal ==
    [][/\ \A k \in Tasks :
            /\ pc[k] = "Done" => pc'[k] = "Done" /\ output'[k] = output[k]
            /\ output'[k] # output[k] =>
                  \A j \in Tasks \ {k} : output'[j] = output[j]
       /\ Returned => results' = results]_vars

C13_Witness ==
    \E k, j \in Tasks :
        /\ k # j
        /\ tasks[k].sender_clone = tasks[j].sender_clone
        /\ pc[k] = "Done" /\ output[k].v.error.some
        /\ pc[j] = "Done" /\ ~output[j].v.error.some
        /\ main_pc = "exit"

(***************************************************************************)
(* C14.  With 1 sender and 2 recipients, a fetched blockhash, submissions  *)
(* answered with the signatures SIG_A and SIG_B and both status queries    *)
(* answered with a confirmed status, the batch returns exactly 2 results,  *)
(* none with an error, both with a status of tier "confirmed", carrying    *)
(* SIG_A and SIG_B in this order.                                          *)
(***************************************************************************)
Confirmed ==
    [slot |-> 1, confirmations |-> None, err |-> None,
     confirmation_status |-> "confirmed"]

EndToEndScenario ==
    /\ S = 1 /\ R = 2
    /\ FetchSucceeded
    /\ Returned
    /\ local[1].sent = Some(Ok("SIG_A"))
    /\ local[2].sent = Some(Ok("SIG_B"))
    /\ \A k \in Tasks : ~warned[k] /\ local[k].status = Some(Confirmed)

C14_EndToEnd ==
    EndToEndScenario =>
        /\ Len(results) = 2
        /\ \A n \in DOMAIN results :
              /\ ~results[n].error.some
              /\ results[n].status.some
              /\ results[n].status.v.confirmation_status = "confirmed"
        /\ results[1].signature = "SIG_A"
        /\ results[2].signature = "SIG_B"

C14_Witness == EndToEndScenario /\ main_pc = "exit"

(***************************************************************************)
(* C15.  The error of a failed result names the first step that failed, in *)
(* the order keypair parse, recipient parse, submission; a pair whose      *)
(* keypair and recipient address are both invalid reports the keypair.     *)
(***************************************************************************)
KeypairInvalid(k) == ~parse_keypair(tasks[k].sender_clone.private_key).ok
RecipientInvalid(k) == ~PubkeyFromStr(tasks[k].recipient_clone).ok
SubmissionFailed(k) == local[k].sent.some /\ ~local[k].sent.v.ok

FirstFailure(k) ==
    IF KeypairInvalid(k) THEN "Failed to parse keypair"
    ELSE IF RecipientInvalid(k) THEN "Invalid recipient address"
    ELSE IF SubmissionFailed(k) THEN "Failed to send transaction"
    ELSE "none"

C15_ErrorNamesFirstFailure ==
    \A k \in Tasks :
        pc[k] = "Done" =>
            IF FirstFailure(k) = "none"
            THEN ~output[k].v.error.some
            ELSE /\ output[k].v.error.some
                 /\ Head(output[k].v.error.v) = FirstFailure(k)

C15_Witness ==
    \E k \in Tasks :
        /\ pc[k] = "Done"
        /\ KeypairInvalid(k) /\ RecipientInvalid(k)
        /\ Head(output[k].v.error.v) = "Failed to parse keypair"

(***************************************************************************)
(* C18.  The returned Vec is in launch order, sender-major: with R         *)
(* recipients, the result of the i-th sender and the j-th recipient        *)
(* (counted from 1) is at position (i-1)*R + j, whatever the order in      *)
(* which the tasks completed.                                              *)
(***************************************************************************)
C18_LaunchOrder ==
    (Returned /\ FetchSucceeded) =>
        /\ Len(results) = S * R
        /\ \A i \in 1..S : \A j \in 1..R :
              /\ results[(i - 1) * R + j].from_address = sender_wallets[i].address
              /\ results[(i - 1) * R + j].to_address = recipients[j]

C18_Witness ==
    /\ Returned /\ FetchSucceeded
    /\ S = 2 /\ R = 2
    /\ recipients[1] # recipients[2]
    /\ ~results[1].error.some
    /\ results[2].error.some
    /\ results[3].error.some

(***************************************************************************)
(* C19.  sendTransaction is issued by a task only after its keypair and    *)
(* its recipient address parsed and its transaction was signed; a task     *)
(* whose keypair or recipient does not parse issues no RPC call; at the    *)
(* return, the number of submissions equals the number of pairs that pass  *)
(* both parses.                                                            *)
(***************************************************************************)
PassesBothParses(k) == ~KeypairInvalid(k) /\ ~RecipientInvalid(k)

C19_SubmitOnlyAfterParses ==
    /\ \A k \in Tasks :
          /\ send_calls[k] > 0 =>
                /\ PassesBothParses(k)
                /\ local[k].sender_keypair.some
                /\ local[k].recipient_pubkey.some
                /\ local[k].transaction.some
          /\ ~PassesBothParses(k) =>
                /\ send_calls[k] = 0
                /\ status_calls[k] = 0
                /\ awaiting[k] = "nothing"
    /\ (Returned /\ FetchSucceeded) =>
          Sum(send_calls) = Cardinality({ k \in Tasks : PassesBothParses(k) })

C19_Witness ==
    /\ Returned /\ FetchSucceeded
    /\ Len(tasks) = 4
    /\ Sum(send_calls) = 1
    /\ \E k \in Tasks : ~KeypairInvalid(k) /\ RecipientInvalid(k) /\ send_calls[k] = 0

(***************************************************************************)
(* C20.  In every returned result: an error comes with an empty signature  *)
(* and no status; a status comes with no error and with the signature that *)
(* the submission of that pair returned.                                   *)
(***************************************************************************)
C20_ResultShape ==
    Returned =>
        \A n \in DOMAIN results :
            /\ results[n].error.some =>
                  /\ results[n].signature = ""
                  /\ ~results[n].status.some
            /\ results[n].status.some =>
                  /\ ~results[n].error.some
                  /\ Submitted(n)
                  /\ results[n].signature = local[n].sent.v.value

C20_Witness ==
    /\ Returned
    /\ \E n \in DOMAIN results : results[n].status.some /\ results[n].signature = "SIG_B"
    /\ \E n \in DOMAIN results : results[n].error.some /\ SubmissionFailed(n)

(***************************************************************************)
(* C17.  parse_keypair returns an error for every text that is not base 58 *)
(* and for every text that decodes to a number of bytes other than 64,     *)
(* the error then naming that number; it returns a keypair only for a text *)
(* that decodes to exactly 64 bytes.                                       *)
(***************************************************************************)
C17_KeypairNeeds64Bytes ==
    keypair.some =>
        LET decoded == Bs58Decode(private_key) IN
        /\ ~decoded.ok => ~keypair.v.ok
        /\ (decoded.ok /\ decoded.len # 64) =>
              /\ ~keypair.v.ok
              /\ keypair.v.error[2] = ToString(decoded.len)
        /\ keypair.v.ok => decoded.ok /\ decoded.len = 64

C17_Witness ==
    /\ keypair.some
    /\ private_key = Ones(65)
    /\ ~keypair.v.ok

(***************************************************************************)
(* C16.  Unit conversion.  As stated: for every whole amount N,            *)
(* lamports_to_sol(sol_to_lamports(N)) gives N back.                       *)
(***************************************************************************)
IsWhole(sol) == sol.e >= 0

InU64Range(sol) == ~sol.neg /\ BitLen(sol.m * FiveToNine) + sol.e + 9 <= U64Bits
WholeLamports(sol) == sol.m = 0 \/ sol.e + 9 >= 0

RECURSIVE TimeOf(_)
TimeOf(ns) ==
    IF ns = {} THEN 0
    ELSE LET n == CHOOSE x \in ns : TRUE
         IN  results[n].processing_time + TimeOf(ns \ {n})

TimesOf(ns) == { results[n].processing_time : n \in ns }

C21_OnlyErrorsFail ==
    stats.some =>
        /\ stats.v.failed = Cardinality(WithError)
        /\ stats.v.successful = Cardinality(WithoutError)
        /\ stats.v.total_time = TimeOf(WithoutError)
        /\ IF WithoutError = {}
           THEN /\ stats.v.min_time = DurationMax
                /\ stats.v.max_time = 0
                /\ ~stats.v.avg_time.computed
           ELSE /\ stats.v.min_time \in TimesOf(WithoutError)
                /\ stats.v.max_time \in TimesOf(WithoutError)
                /\ \A t \in TimesOf(WithoutError) :
                      stats.v.min_time <= t /\ t <= stats.v.max_time
                /\ stats.v.avg_time.computed
                /\ stats.v.avg_time.value =
                      TimeOf(WithoutError) \div Cardinality(WithoutError)

C21_Witness ==
    /\ stats.some
    /\ Len(results) = 3
    /\ ~results[1].error.some /\ results[1].status.some /\ results[1].status.v.err.some
    /\ results[1].processing_time = ConfirmationWaitMs + 500
    /\ ~results[2].error.some /\ ~results[2].status.some
    /\ results[2].processing_time = ConfirmationWaitMs
    /\ results[3].error.some /\ results[3].processing_time = 0
    /\ stats.v.successful = 2
    /\ stats.v.min_time = ConfirmationWaitMs

(***************************************************************************)
(* C22.  For a result without error the printed status label is PENDING    *)
(* exactly when the status is absent, TRANSACTION FAILED exactly when the  *)
(* status is present with an error payload, SUCCESS exactly when it is     *)
(* present without one; a result with an error gets no status label.       *)
(***************************************************************************)
StatusLabels == { "PENDING", "TRANSACTION FAILED", "SUCCESS" }

C22_StatusLabels ==
    stats.some =>
        /\ Len(stats.v.printed) = Len(results)
        /\ \A n \in DOMAIN results :
              LET label == stats.v.printed[n]
                  r == results[n]
              IN  IF r.error.some
                  THEN label \notin StatusLabels
                  ELSE /\ label \in StatusLabels
                       /\ label = "PENDING" <=> ~r.status.some
                       /\ label = "TRANSACTION FAILED" <=>
                             (r.status.some /\ r.status.v.err.some)
                       /\ label = "SUCCESS" <=>
                             (r.status.some /\ ~r.status.v.err.some)

C22_Witness ==
    /\ stats.some
    /\ stats.v.printed = <<"TRANSACTION FAILED", "PENDING", "SUCCESS">>

(***************************************************************************)
(* C23.  No concurrency cap: a task whose transaction is signed can issue  *)
(* its submission whatever the number of submissions already in flight,    *)
(* and a batch of four valid pairs reaches the state where all four        *)
(* submissions are in flight.                                              *)
(***************************************************************************)
InFlight == { k \in Tasks : awaiting[k] = "sendTransaction" }

C23_NoConcurrencyCap ==
    \A k \in Tasks :
        (pc[k] = "TransactionSigned" /\ awaiting[k] = "nothing") =>
            ENABLED SendTransaction(k)

C23_Witness ==
    /\ S * R = 4
    /\ Len(tasks) = 4
    /\ \A k \in Tasks : PassesBothParses(k)
    /\ InFlight = Tasks
    /\ \A k \in Tasks : pc[k] # "Done"

(***************************************************************************)
(* C24.  Each RPC call (blockhash fetch, submission, status query) fails   *)
(* when the response carries an error object, also when it carries a       *)
(* result as well, the failure naming code and message of the error; it    *)
(* fails when the response carries neither result nor error; it succeeds,  *)
(* with the result, only when a result is present and no error is.         *)
(***************************************************************************)
ResultOf(method, reply) ==
    CASE method = "getLatestBlockhash" -> reply.result.v.value.blockhash
      [] method = "sendTransaction"    -> reply.result.v
      [] method = "getSignatureStatus" -> reply.result.v.value

C24_ErrorBeforeResult ==
    rpc_outcome.some =>
        /\ (rpc_reply.transport /\ rpc_reply.error.some) =>
              /\ ~rpc_outcome.v.ok
              /\ rpc_outcome.v.error =
                    <<"RPC Error", rpc_reply.error.v.code, rpc_reply.error.v.message>>
        /\ (~rpc_reply.error.some /\ ~rpc_reply.result.some) => ~rpc_outcome.v.ok
        /\ rpc_outcome.v.ok =>
              /\ rpc_reply.transport
              /\ rpc_reply.result.some
              /\ ~rpc_reply.error.some
              /\ rpc_outcome.v.value = ResultOf(rpc_method, rpc_reply)

C24_Witness ==
    /\ rpc_method = "sendTransaction"
    /\ rpc_reply.result = Some("SIG_A")
    /\ rpc_reply.error.some
    /\ rpc_outcome.some
    /\ ~rpc_outcome.v.ok

(***************************************************************************)
(* C25.  The watcher never stops on its own: whenever run has ended, with  *)
(* Ok or with an error, a new run is started.  Every Ping taken from the   *)
(* stream is answered with exactly one ping request of id 1, sent before   *)
(* the next item is taken; Block, Pong and the other updates send nothing. *)
(***************************************************************************)
RunEnded == bot_pc \in { "run_ok", "run_err" }

RECURSIVE Pings(_)
Pings(items) ==
    IF items = <<>> THEN 0
    ELSE (IF Head(items) = "Ping" THEN 1 ELSE 0) + Pings(Tail(items))

PingsAnswered ==
    /\ bot_pc # "exit"
    /\ Len(subscribe_tx) = Pings(received)
    /\ \A n \in DOMAIN subscribe_tx : subscribe_tx[n] = [ping |-> [id |-> 1]]

OnePingPerPing ==
    /\ subscribe_tx' # subscribe_tx =>
          \/ bot_pc = "subscribe_with_request" /\ subscribe_tx' = <<>>
          \/ /\ bot_pc = "stream_next"
             /\ received' = Append(received, "Ping")
             /\ subscribe_tx' = Append(subscribe_tx, [ping |-> [id |-> 1]])
             /\ bot_pc' = "send_ping"
    /\ (bot_pc = "stream_next" /\ received' # received) =>
          /\ Len(received') = Len(received) + 1
          /\ LET item == received'[Len(received')] IN
             /\ item = "Ping" => Len(subscribe_tx') = Len(subscribe_tx) + 1
             /\ item # "Ping" => subscribe_tx' = subscribe_tx
             /\ item \in {"Empty", "Closed", "Error"} => bot_pc' # "stream_next"

C25_WatcherRestarts ==
    /\ []PingsAnswered
    /\ [][OnePingPerPing]_vars
    /\ RunEnded ~> (bot_pc = "connect_geyser")

C25_Witness ==
    /\ bot_pc = "connect_geyser"
    /\ received = <<"Ping", "Block", "Ping">>
    /\ subscribe_tx = <<[ping |-> [id |-> 1]], [ping |-> [id |-> 1]]>>
    /\ bot_slept_s = RestartSleepS

(***************************************************************************)
(* C26.  get_balances.  As stated: a failed call for an address gives an   *)
(* Err entry for that address.                                             *)
(***************************************************************************)
CallFailed(i) == balance_out[i].some /\ ~balance_out[i].v[2].ok

C26_FailedCallGivesErrEntry ==
    balances.some =>
        \A i \in Wallets : CallFailed(i) => ~balances.v[wallet_addresses[i]].ok

(***************************************************************************)
(* C26, amended.  get_balances issues exactly one balance call per element *)
(* of the input, none waiting for another, and returns a map with exactly  *)
(* one entry for each distinct input address.  The entry of an address is  *)
(* the outcome of the call made for the last occurrence of that address in *)
(* the input: Err when that call failed, whatever the calls for the other  *)
(* addresses and for earlier occurrences of the same address returned.     *)
(***************************************************************************)
LastOccurrence(address) ==
    CHOOSE i \in Wallets :
        /\ wallet_addresses[i] = address
        /\ \A j \in Wallets : wallet_addresses[j] = address => j <= i

C26_LastOccurrenceWins ==
    /\ \A i \in Wallets :
          /\ balance_calls[i] <= 1
          /\ balance_pc[i] = "Start" => ENABLED GetSingleBalance(i)
    /\ balances.some =>
          /\ \A i \in Wallets : balance_calls[i] = 1
          /\ DOMAIN balances.v = { wallet_addresses[i] : i \in Wallets }
          /\ \A address \in DOMAIN balances.v :
                balances.v[address] = balance_out[LastOccurrence(address)].v[2]

C26_Witness ==
    /\ balances.some
    /\ wallet_addresses = <<"WALLET_1", "WALLET_2", "WALLET_1">>
    /\ CallFailed(1) /\ CallFailed(2) /\ ~CallFailed(3)
    /\ ~balances.v["WALLET_2"].ok
    /\ balances.v["WALLET_1"] = Ok(5)

====
